---------------------------- MODULE Spec2Model ----------------------------
(***************************************************************************)
(* Model of the headline title parser (src/elements/title.rs) and of the   *)
(* inline object scanner (src/objects/mod.rs) of orgize.                   *)
(*                                                                         *)
(* Text is a sequence of one-character strings.  A position is a 0-based   *)
(* offset into the text, as in the Rust code; a borrowed &str slice is the *)
(* pair of offsets [from, to) it covers, together with its characters.     *)
(* The title parser is modelled on characters (every index it computes is  *)
(* the index of an ASCII character), the object scanner on bytes, where a  *)
(* non-ASCII character is a lead byte followed by a continuation byte.     *)
(***************************************************************************)
EXTENDS Integers, Sequences, FiniteSets, TLC

VARIABLES
    src,      \* the text handed to the operation
    shape,    \* how src was put together (read by no operation)
    pc,       \* "title" | "drawer" | "scan" before the call, "done" after it
    title,    \* result of parse_title
    drawer,   \* result of parse_properties_drawer called on its own
    scan      \* result of Object::next_2

vars == <<src, shape, pc, title, drawer, scan>>

Null == [ok |-> FALSE]

----------------------------------------------------------------------------
(* Characters                                                              *)

NBSP == "U+00A0"    \* a non-ASCII White_Space character
EACUTE == "U+00E9"  \* a non-ASCII alphabetic character

Upper == {"A", "B", "C", "D", "E", "F", "G", "H", "I", "J", "K", "L", "M",
          "N", "O", "P", "Q", "R", "S", "T", "U", "V", "W", "X", "Y", "Z"}
Lower == {"a", "b", "c", "d", "e", "f", "g", "h", "i", "j", "k", "l", "m",
          "n", "o", "p", "q", "r", "s", "t", "u", "v", "w", "x", "y", "z"}
Digit == {"0", "1", "2", "3", "4", "5", "6", "7", "8", "9"}

\* nom::character::complete::space1 accepts ' ' and '\t'
IsSpace(c) == c \in {" ", "\t"}
\* u8/char::is_ascii_whitespace
IsAsciiWhitespace(c) == c \in {" ", "\t", "\n", "\r", "\f"}
\* char::is_whitespace (Unicode White_Space), used by str::trim
IsWhitespace(c) == IsAsciiWhitespace(c) \/ c = NBSP
IsAsciiUppercase(c) == c \in Upper
IsAsciiAlphabetic(c) == c \in Upper \cup Lower
\* char::is_alphanumeric (Unicode)
IsAlphanumeric(c) == c \in Upper \cup Lower \cup Digit \cup {EACUTE}
IsStar(c) == c = "*"
IsWordChar(c) == ~IsAsciiWhitespace(c)

----------------------------------------------------------------------------
(* Slices and the str methods the code uses                                *)

Slice(s, a, b) == SubSeq(s, a + 1, b)
Suffix(s, p) == SubSeq(s, p + 1, Len(s))

\* end of the longest run of characters satisfying P that starts at offset p
RunEnd(s, p, P(_)) ==
    CHOOSE q \in p..Len(s) :
        /\ \A i \in (p + 1)..q : P(s[i])
        /\ (q = Len(s) \/ ~P(s[q + 1]))

\* start of the longest run of characters satisfying P that ends at offset q,
\* not before offset a
RunStart(s, a, q, P(_)) ==
    CHOOSE p \in a..q :
        /\ \A i \in (p + 1)..q : P(s[i])
        /\ (p = a \/ ~P(s[p]))

StartsWith(s, p, pre) ==
    /\ p + Len(pre) <= Len(s)
    /\ \A i \in 1..Len(pre) : s[p + i] = pre[i]

\* offset of the first occurrence of character c at or after p, or -1
FindChar(s, p, c) ==
    IF \E i \in (p + 1)..Len(s) : s[i] = c
    THEN (CHOOSE i \in (p + 1)..Len(s) :
              s[i] = c /\ \A j \in (p + 1)..(i - 1) : s[j] # c) - 1
    ELSE -1

\* str::trim_start / str::trim on the slice [a, b) of s: the trimmed slice
TrimStartFrom(s, a, b) == IF RunEnd(s, a, IsWhitespace) > b THEN b
                          ELSE RunEnd(s, a, IsWhitespace)
TrimSlice(s, a, b) ==
    LET a2 == TrimStartFrom(s, a, b)
        b2 == RunStart(s, a2, b, IsWhitespace)
    IN  <<a2, b2>>

\* str::trim on a string value
Trim(t) == LET r == TrimSlice(t, 0, Len(t)) IN Slice(t, r[1], r[2])

----------------------------------------------------------------------------
(* Collaborators of the title parser: parse::combinators, Planning, drawer *)

\* one_word: one or more characters that are not ASCII whitespace
one_word(s, p) ==
    LET e == RunEnd(s, p, IsWordChar)
    IN  IF e > p THEN [ok |-> TRUE, from |-> p, to |-> e, rest |-> e]
        ELSE Null

\* line: the text up to the next line feed (a carriage return before it
\* dropped), and the offset after the line feed
line(s, p) ==
    LET nl == FindChar(s, p, "\n")
    IN  IF nl = -1 THEN [from |-> p, to |-> Len(s), rest |-> Len(s)]
        ELSE [from |-> p,
              to   |-> IF nl > p /\ s[nl] = "\r" THEN nl - 1 ELSE nl,
              rest |-> nl + 1]

IsBlank(s, a, b) == \A i \in (a + 1)..b : IsWhitespace(s[i])

\* blank_lines_count: skips the blank lines at p and counts them
RECURSIVE blank_lines_count(_, _)
blank_lines_count(s, p) ==
    IF p >= Len(s) THEN [rest |-> p, count |-> 0]
    ELSE LET l == line(s, p)
         IN  IF IsBlank(s, l.from, l.to)
             THEN LET r == blank_lines_count(s, l.rest)
                  IN  [rest |-> r.rest, count |-> r.count + 1]
             ELSE [rest |-> p, count |-> 0]

PlanningKeywords ==
    { <<"C", "L", "O", "S", "E", "D", ":">>,
      <<"D", "E", "A", "D", "L", "I", "N", "E", ":">>,
      <<"S", "C", "H", "E", "D", "U", "L", "E", "D", ":">> }

\* Planning::parse: the line at p is a planning line when, trimmed, it is a
\* planning keyword followed by a bracketed timestamp
PlanningParse(s, p) ==
    LET l == line(s, p)
        t == TrimSlice(s, l.from, l.to)
        isPlan == \E k \in PlanningKeywords :
                     /\ StartsWith(s, t[1], k)
                     /\ t[1] + Len(k) <= t[2]
                     /\ LET b == TrimStartFrom(s, t[1] + Len(k), t[2])
                        IN  /\ b + 2 < t[2]
                            /\ \/ s[b + 1] = "<" /\ s[t[2]] = ">"
                               \/ s[b + 1] = "[" /\ s[t[2]] = "]"
    IN  IF isPlan THEN [ok |-> TRUE, rest |-> l.rest, from |-> t[1], to |-> t[2]]
        ELSE Null

IsDrawerNameChar(c) == IsAsciiAlphabetic(c) \/ c \in {"-", "_"}

EndMarker == <<":", "E", "N", "D", ":">>
EndMarkerLower == <<":", "e", "n", "d", ":">>

\* line.trim().eq_ignore_ascii_case(":END:")
IsEndLine(s, a, b) ==
    LET t == TrimSlice(s, a, b)
    IN  /\ t[2] - t[1] = Len(EndMarker)
        /\ \A i \in 1..Len(EndMarker) :
               s[t[1] + i] \in {EndMarker[i], EndMarkerLower[i]}

\* offset of the first line at or after p that is an :END: line, or -1
RECURSIVE FindEndLine(_, _)
FindEndLine(s, p) ==
    IF p >= Len(s) THEN -1
    ELSE LET l == line(s, p)
         IN  IF IsEndLine(s, l.from, l.to) THEN p ELSE FindEndLine(s, l.rest)

\* parse_drawer_without_blank: ":NAME:" alone on its line, the body lines,
\* and the closing :END: line
parse_drawer_without_blank(s, p) ==
    IF ~StartsWith(s, p, <<":">>) THEN Null
    ELSE LET ne == RunEnd(s, p + 1, IsDrawerNameChar)
         IN  IF ne = p + 1 \/ ~StartsWith(s, ne, <<":">>) THEN Null
             ELSE LET l == line(s, ne + 1)
                  IN  IF ~IsBlank(s, l.from, l.to) \/ l.rest = l.to THEN Null
                      ELSE LET e == FindEndLine(s, l.rest)
                           IN  IF e = -1 THEN Null
                               ELSE [ok |-> TRUE,
                                     name |-> Slice(s, p + 1, ne),
                                     from |-> l.rest,
                                     to   |-> e,
                                     rest |-> line(s, e).rest]

----------------------------------------------------------------------------
(* Property drawer: title.rs, parse_node_property, parse_properties_drawer *)

\* s.trim_end_matches('+'): every trailing '+' is removed
IsPlus(c) == c = "+"

\* the name with only its last '+' removed
TrimEndOnePlus(t) ==
    IF t # <<>> /\ IsPlus(t[Len(t)]) THEN SubSeq(t, 1, Len(t) - 1) ELSE t

TrimEndPlus(t) == SubSeq(t, 1, RunStart(t, 0, Len(t), IsPlus))

\* parse_node_property on the drawer content c at offset p
parse_node_property(c, p) ==
    LET b == blank_lines_count(c, p).rest
        q == TrimStartFrom(c, b, Len(c))
    IN  IF ~StartsWith(c, q, <<":">>) THEN Null
        ELSE LET k == FindChar(c, q + 1, ":")      \* take_until(":")
             IN  IF k = -1 THEN Null
                 ELSE LET l == line(c, k + 1)
                      IN  [ok    |-> TRUE,
                           name  |-> TrimEndPlus(Slice(c, q + 1, k)),
                           value |-> Trim(Slice(c, l.from, l.to)),
                           rest  |-> l.rest]

\* fold_many0(parse_node_property, PropertiesMap::new, push): the pairs are
\* pushed in the order parsed; the fold ends at the first line that fails
\* the fold that puts each new pair in front of the pairs parsed before it
RECURSIVE FoldPropertiesPrepend(_, _, _)
FoldPropertiesPrepend(c, p, acc) ==
    LET r == parse_node_property(c, p)
    IN  IF r.ok
        THEN FoldPropertiesPrepend(c, r.rest, <<<<r.name, r.value>>>> \o acc)
        ELSE acc

RECURSIVE FoldProperties(_, _, _)
FoldProperties(c, p, acc) ==
    LET r == parse_node_property(c, p)
    IN  IF r.ok THEN FoldProperties(c, r.rest, Append(acc, <<r.name, r.value>>))
        ELSE acc

PROPERTIES == <<"P", "R", "O", "P", "E", "R", "T", "I", "E", "S">>

\* the drawer parse with the test of the drawer's name forgotten
parse_properties_drawer_any_name(s, p) ==
    LET d == parse_drawer_without_blank(s, TrimStartFrom(s, p, Len(s)))
    IN  IF ~d.ok THEN Null
        ELSE [ok    |-> TRUE,
              rest  |-> d.rest,
              pairs |-> FoldProperties(Slice(s, d.from, d.to), 0, <<>>)]

parse_properties_drawer(s, p) ==
    LET d == parse_drawer_without_blank(s, TrimStartFrom(s, p, Len(s)))
    IN  IF ~d.ok THEN Null
        ELSE IF d.name # PROPERTIES THEN Null
        ELSE [ok    |-> TRUE,
              rest  |-> d.rest,
              pairs |-> FoldProperties(Slice(s, d.from, d.to), 0, <<>>)]

\* PropertiesMap::iter / into_iter: the pairs as pushed
PropertiesIter(pairs) == pairs

\* PropertiesMap::into_index_map: a key keeps the position of its first
\* pair and the value of its last
RECURSIVE IntoIndexMap(_)
IntoIndexMap(pairs) ==
    IF pairs = <<>> THEN <<>>
    ELSE LET init == IntoIndexMap(SubSeq(pairs, 1, Len(pairs) - 1))
             kv   == pairs[Len(pairs)]
         IN  IF \E i \in 1..Len(init) : init[i][1] = kv[1]
             THEN [i \in 1..Len(init) |->
                      IF init[i][1] = kv[1] THEN kv ELSE init[i]]
             ELSE Append(init, kv)

----------------------------------------------------------------------------
(* Title parser: title.rs, parse_title                                     *)

\* ParseConfig::todo_keywords: the open and the closed keyword lists
TODO == <<"T", "O", "D", "O">>
DONE == <<"D", "O", "N", "E">>
DefaultConfig == [open |-> <<TODO>>, closed |-> <<DONE>>]

InList(w, list) == \E i \in 1..Len(list) : list[i] = w

\* the keyword test with the closed list forgotten
IsTodoKeywordOpenOnly(w, config) == InList(w, config.open)

\* the verify closure of the keyword step
IsTodoKeyword(w, config) == InList(w, config.open) \/ InList(w, config.closed)

\* the keyword step that keeps the word it read when the word is no keyword
KeywordStepNoBacktrack(s, p, config) ==
    LET sp == RunEnd(s, p, IsSpace)
        w  == one_word(s, sp)
    IN  IF sp > p /\ w.ok /\ IsTodoKeyword(Slice(s, w.from, w.to), config)
        THEN [ok |-> TRUE, from |-> w.from, to |-> w.to, rest |-> w.rest]
        ELSE [ok |-> FALSE, rest |-> IF sp > p /\ w.ok THEN w.rest ELSE p]

\* opt(preceded(space1, verify(one_word, ...)))
KeywordStep(s, p, config) ==
    LET sp == RunEnd(s, p, IsSpace)
        w  == one_word(s, sp)
    IN  IF sp > p /\ w.ok /\ IsTodoKeyword(Slice(s, w.from, w.to), config)
        THEN [ok |-> TRUE, from |-> w.from, to |-> w.to, rest |-> w.rest]
        ELSE [ok |-> FALSE, rest |-> p]

\* white_spaces_or_eol: alt((space1, line_ending)); -1 when neither matches
white_spaces_or_eol(s, p) ==
    IF RunEnd(s, p, IsSpace) > p THEN RunEnd(s, p, IsSpace)
    ELSE IF StartsWith(s, p, <<"\n">>) THEN p + 1
    ELSE IF StartsWith(s, p, <<"\r", "\n">>) THEN p + 2
    ELSE -1

\* the priority test widened to any letter or digit
IsPriorityCharAlphanumeric(c) == IsAlphanumeric(c)

\* the verify closure of the priority step
IsPriorityChar(c) == IsAsciiUppercase(c)

\* opt(delimited(space1, delimited(tag("[#"), verify(anychar, ...), tag("]")),
\*               white_spaces_or_eol))
PriorityStep(s, p) ==
    LET sp == RunEnd(s, p, IsSpace)
        e  == IF sp + 4 <= Len(s) THEN white_spaces_or_eol(s, sp + 4) ELSE -1
    IN  IF /\ sp > p
           /\ StartsWith(s, sp, <<"[", "#">>)
           /\ sp + 3 <= Len(s)
           /\ IsPriorityChar(s[sp + 3])
           /\ StartsWith(s, sp + 3, <<"]">>)
           /\ e # -1
        THEN [ok |-> TRUE, char |-> s[sp + 3], from |-> sp, to |-> sp + 4,
              rest |-> e]
        ELSE [ok |-> FALSE, rest |-> p]

IsTagChar(c) == IsAlphanumeric(c) \/ c \in {"_", "@", "#", "%", ":"}

\* the tag-line test with the length test forgotten
is_tag_line_any_length(t) ==
    /\ Len(t) > 0
    /\ t[1] = ":"
    /\ t[Len(t)] = ":"
    /\ \A i \in 1..Len(t) : IsTagChar(t[i])

is_tag_line(t) ==
    /\ Len(t) > 2
    /\ t[1] = ":"
    /\ t[Len(t)] = ":"
    /\ \A i \in 1..Len(t) : IsTagChar(t[i])

\* t.split(':').filter(|s| !s.is_empty())
RECURSIVE SplitTags(_)
SplitTags(t) ==
    IF t = <<>> THEN <<>>
    ELSE LET k   == FindChar(t, 0, ":")
             seg == IF k = -1 THEN t ELSE SubSeq(t, 1, k)
             rem == IF k = -1 THEN <<>> ELSE Suffix(t, k + 1)
         IN  IF seg = <<>> THEN SplitTags(rem) ELSE <<seg>> \o SplitTags(rem)

\* memrchr2(b' ', b'\t', ..) on the slice [a, b): offset of the last space or
\* tab, or -1
LastSpace(s, a, b) ==
    IF \E i \in (a + 1)..b : IsSpace(s[i])
    THEN (CHOOSE i \in (a + 1)..b :
              IsSpace(s[i]) /\ \A j \in (i + 1)..b : ~IsSpace(s[j])) - 1
    ELSE -1

\* the split of the trimmed tail [a, b) into raw and the tag group
TagStep(s, a, b) ==
    LET i    == LastSpace(s, a, b)
        head == TrimSlice(s, a, i)
    IN  IF i # -1 /\ is_tag_line(Slice(s, i + 1, b))
        THEN [rawFrom |-> head[1], rawTo |-> head[2],
              tagged |-> TRUE, tagFrom |-> i + 1, tagTo |-> b]
        ELSE [rawFrom |-> a, rawTo |-> b,
              tagged |-> FALSE, tagFrom |-> b, tagTo |-> b]

\* F applied to the value of v: each step of parse_title below is computed
\* once and its result handed to the steps after it
With(v, F(_)) == CHOOSE r \in {F(x) : x \in {v}} : TRUE

parse_title(s, config) ==
    With(RunEnd(s, 0, IsStar), LAMBDA level :
    With(KeywordStep(s, level, config), LAMBDA kw :
    With(PriorityStep(s, kw.rest), LAMBDA pri :
    With(line(s, pri.rest), LAMBDA ln :
    With(TrimSlice(s, ln.from, ln.to), LAMBDA tail :
    With(TagStep(s, tail[1], tail[2]), LAMBDA tg :
    With(PlanningParse(s, ln.rest), LAMBDA plan :
    With(IF plan.ok THEN plan.rest ELSE ln.rest, LAMBDA p5 :
    With(parse_properties_drawer(s, p5), LAMBDA prop :
    With(IF prop.ok THEN prop.rest ELSE p5, LAMBDA p6 :
    With(blank_lines_count(s, p6), LAMBDA blank :
    [level      |-> level,
     keyword    |-> IF kw.ok THEN <<Slice(s, kw.from, kw.to)>> ELSE <<>>,
     priority   |-> IF pri.ok THEN <<pri.char>> ELSE <<>>,
     tags       |-> SplitTags(Slice(s, tg.tagFrom, tg.tagTo)),
     raw        |-> Slice(s, tg.rawFrom, tg.rawTo),
     planning   |-> IF plan.ok THEN <<Slice(s, plan.from, plan.to)>> ELSE <<>>,
     properties |-> IF prop.ok THEN prop.pairs ELSE <<>>,
     post_blank |-> blank.count,
     rawText    |-> Slice(s, tg.rawFrom, tg.rawTo),
     rest       |-> blank.rest,
     \* where each borrowed piece lies in s, and the input offset after
     \* each step
     kwFrom |-> IF kw.ok THEN kw.from ELSE level,
     kwTo   |-> IF kw.ok THEN kw.to ELSE level,
     priFrom |-> IF pri.ok THEN pri.from ELSE kw.rest,
     priTo   |-> IF pri.ok THEN pri.to ELSE kw.rest,
     rawFrom |-> tg.rawFrom, rawTo |-> tg.rawTo,
     tagged  |-> tg.tagged,
     tagFrom |-> tg.tagFrom, tagTo |-> tg.tagTo,
     tailFrom |-> tail[1], tailTo |-> tail[2],
     afterLevel |-> level, afterKeyword |-> kw.rest,
     afterPriority |-> pri.rest, afterLine |-> ln.rest,
     afterPlanning |-> p5, afterProperties |-> p6])))))))))))

----------------------------------------------------------------------------
(* Object scanner: objects/mod.rs.  The text is a sequence of bytes; the   *)
(* two bytes of a non-ASCII character are LEAD and CONT.                   *)

LEAD == "0xC3"
CONT == "0xA9"

\* str::is_char_boundary
IsCharBoundary(s, i) == i = 0 \/ i = Len(s) \/ (i < Len(s) /\ s[i + 1] # CONT)
\* &src[a..] and &src[a..b] panic unless both ends are in range and on a
\* character boundary
SliceOk(s, a, b) == a <= b /\ b <= Len(s) /\ IsCharBoundary(s, a) /\ IsCharBoundary(s, b)

\* Emphasis::parse(text, marker): the offset of the closing marker.  The
\* opening marker is followed by a non-whitespace byte; the closing marker
\* follows a non-whitespace byte and is followed by the end of the text or a
\* border byte.
PostBorder == {" ", "-", ".", ",", ":", "!", "?", "'", "\n", ")", "}"}

IsClosingMarker(t, i, marker) ==
    /\ t[i + 1] = marker
    /\ ~IsAsciiWhitespace(t[i])
    /\ (i + 1 = Len(t) \/ t[i + 2] \in PostBorder)

EmphasisParse(t, marker) ==
    IF Len(t) < 3 \/ IsAsciiWhitespace(t[2]) THEN -1
    ELSE IF \E i \in 2..(Len(t) - 1) : IsClosingMarker(t, i, marker)
    THEN CHOOSE i \in 2..(Len(t) - 1) :
            /\ IsClosingMarker(t, i, marker)
            /\ \A j \in 2..(i - 1) : ~IsClosingMarker(t, j, marker)
    ELSE -1

\* offset of the first occurrence of the bytes pat in t at or after p, or -1
FindSeq(t, p, pat) ==
    IF \E i \in p..(Len(t) - Len(pat)) : StartsWith(t, i, pat)
    THEN CHOOSE i \in p..(Len(t) - Len(pat)) :
            StartsWith(t, i, pat) /\ \A j \in p..(i - 1) : ~StartsWith(t, j, pat)
    ELSE -1

\* The structural sub-parsers: each is given the text from its marker on and
\* answers the number of bytes it consumes, or -1.  A construct is its
\* opening bytes, a non-empty body on one line, and its closing bytes.
Delimited(t, open, close) ==
    LET e == FindSeq(t, Len(open) + 1, close)
    IN  IF StartsWith(t, 0, open) /\ e # -1
           /\ \A i \in (Len(open) + 1)..e : t[i] # "\n"
        THEN e + Len(close)
        ELSE -1

SnippetParse(t) == Delimited(t, <<"@", "@">>, <<"@", "@">>)
MacrosParse(t) == Delimited(t, <<"{", "{", "{">>, <<"}", "}", "}">>)
RadioTargetParse(t) == Delimited(t, <<"<", "<", "<">>, <<">", ">", ">">>)
TargetParse(t) == Delimited(t, <<"<", "<">>, <<">", ">">>)
FnRefParse(t) == Delimited(t, <<"[", "f", "n", ":">>, <<"]">>)
LinkParse(t) == Delimited(t, <<"[", "[">>, <<"]", "]">>)
\* a statistics cookie: [N%] or [N/M]
CookieParse(t) ==
    LET e == RunEnd(t, 1, LAMBDA c : c \in Digit)
    IN  IF ~StartsWith(t, 0, <<"[">>) THEN -1
        ELSE IF StartsWith(t, e, <<"%", "]">>) THEN e + 2
        ELSE IF StartsWith(t, e, <<"/">>)
                /\ StartsWith(t, RunEnd(t, e + 1, LAMBDA c : c \in Digit), <<"]">>)
             THEN RunEnd(t, e + 1, LAMBDA c : c \in Digit) + 1
        ELSE -1
InlineCallParse(t) ==
    LET e == FindSeq(t, 6, <<"(", ")">>)
    IN  IF StartsWith(t, 0, <<"c", "a", "l", "l", "_">>) /\ e # -1
           /\ \A i \in 6..e : t[i] \notin {"\n", " "}
        THEN e + 2 ELSE -1
InlineSrcParse(t) ==
    LET o == FindSeq(t, 5, <<"{">>)
        e == IF o = -1 THEN -1 ELSE FindSeq(t, o + 1, <<"}">>)
    IN  IF StartsWith(t, 0, <<"s", "r", "c", "_">>) /\ e # -1
           /\ \A i \in 5..e : t[i] # "\n"
        THEN e + 1 ELSE -1

\* the candidate bytes with the comma of the border arms among them
chars_with_comma == {"@", " ", "\"", "(", "\n", "{", "<", "[", ","}

\* ascii_chars!('@', ' ', '"', '(', '\n', '{', '<', '[')
chars == {"@", " ", "\"", "(", "\n", "{", "<", "["}

\* chars.find(t): offset of the first byte of t that is in chars, or -1
CharsFind(t) ==
    IF \E i \in 1..Len(t) : t[i] \in chars
    THEN (CHOOSE i \in 1..Len(t) :
              t[i] \in chars /\ \A j \in 1..(i - 1) : t[j] \notin chars) - 1
    ELSE -1

\* the bytes after which the single-byte dispatch looks one byte further
IsBorderByte(b) == b \in {"{", " ", "\"", ",", "(", "\n"}

Panic == [panic |-> TRUE]
Text(s, a, b) == [kind |-> "Text", text |-> Slice(s, a, b), at |-> a]
\* a construct found at offset at: end for the span variants, text for the
\* leaves and the structural variants
Span(kind, end, at) == [kind |-> kind, end |-> end, at |-> at]
Leaf(kind, text, at) == [kind |-> kind, text |-> text, at |-> at]

\* the prefix test of brk!: the macro reads the loop variable pos
BrkNoPrefix(pos, p) == pos = 0

\* brk!(obj, off, p), expanded where the loop variable is pos
Brk(s, pos, obj, off, p) ==
    IF BrkNoPrefix(pos, p)
    THEN [panic |-> FALSE, obj |-> obj, off |-> off, next |-> <<>>]
    ELSE IF ~SliceOk(s, 0, p) THEN Panic
    ELSE [panic |-> FALSE, obj |-> Text(s, 0, p), off |-> p,
          next |-> <<[obj |-> obj, off |-> off]>>]

\* the first match of the loop body: the three-byte dispatch at pos.  The
\* answer is a break (done), or the offset pre of the single-byte dispatch.
Structural(s, pos) ==
    LET b0  == s[pos + 1]
        b1  == s[pos + 2]
        b2  == s[pos + 3]
        t   == Suffix(s, pos)
        try(kind, off) ==
            IF ~SliceOk(s, pos, Len(s)) THEN [done |-> TRUE, res |-> Panic]
            ELSE IF off # -1
            THEN [done |-> TRUE,
                  res |-> Brk(s, pos, Leaf(kind, SubSeq(t, 1, off), pos), off, pos)]
            ELSE [done |-> FALSE, pre |-> pos]
    IN  IF pos + 2 >= Len(s) THEN [done |-> TRUE, res |-> Panic]
        ELSE IF b0 = "@" /\ b1 = "@" THEN try("Snippet", SnippetParse(t))
        ELSE IF b0 = "{" /\ b1 = "{" /\ b2 = "{" THEN try("Macros", MacrosParse(t))
        ELSE IF b0 = "<" /\ b1 = "<" /\ b2 = "<"
             THEN try("RadioTarget", RadioTargetParse(t))
        ELSE IF b0 = "<" /\ b1 = "<"
             THEN IF b2 # "\n" THEN try("Target", TargetParse(t))
                  ELSE [done |-> FALSE, pre |-> pos]
        ELSE IF b0 = "[" /\ b1 = "f" /\ b2 = "n" THEN try("FnRef", FnRefParse(t))
        ELSE IF b0 = "[" /\ b1 = "[" THEN try("Link", LinkParse(t))
        ELSE IF b0 = "[" THEN try("Cookie", CookieParse(t))
        ELSE IF IsBorderByte(b0) THEN [done |-> FALSE, pre |-> pos + 1]
        ELSE [done |-> FALSE, pre |-> pos]

\* the second match of the loop body: the single-byte dispatch at pre
Emphasis(s, pos, pre) ==
    LET b  == s[pre + 1]
        t  == Suffix(s, pre)
        no == [done |-> FALSE]
        span(kind) ==
            LET end == EmphasisParse(t, b)
            IN  IF end # -1
                THEN [done |-> TRUE, res |-> Brk(s, pos, Span(kind, end, pre), 1, pre)]
                ELSE no
        leaf(kind) ==
            LET end == EmphasisParse(t, b)
            IN  IF end = -1 THEN no
                ELSE IF ~SliceOk(s, pre + 1, pre + end)
                THEN [done |-> TRUE, res |-> Panic]
                ELSE [done |-> TRUE,
                      res |-> Brk(s, pos, Leaf(kind, Slice(s, pre + 1, pre + end), pre),
                                  end + 1, pre)]
        call(kind, off) ==
            IF off # -1
            THEN [done |-> TRUE,
                  res |-> Brk(s, pos, Leaf(kind, SubSeq(t, 1, off), pre), off, pre)]
            ELSE no
    IN  IF pre >= Len(s) THEN [done |-> TRUE, res |-> Panic]
        ELSE IF b \in {"*", "+", "/", "_", "=", "~", "c", "s"} /\ ~SliceOk(s, pre, Len(s))
             THEN [done |-> TRUE, res |-> Panic]
        ELSE IF b = "*" THEN span("Bold")
        ELSE IF b = "+" THEN span("Strike")
        ELSE IF b = "/" THEN span("Italic")
        ELSE IF b = "_" THEN span("Underline")
        ELSE IF b = "=" THEN leaf("Verbatim")
        ELSE IF b = "~" THEN leaf("Code")
        ELSE IF b = "c" THEN call("InlineCall", InlineCallParse(t))
        ELSE IF b = "s" THEN call("InlineSrc", InlineSrcParse(t))
        ELSE no

\* the search for the next candidate position: &src[pos + 1..] is a str slice
NextPos(s, pos) ==
    IF ~SliceOk(s, pos + 1, Len(s)) THEN [panic |-> TRUE]
    ELSE LET i == CharsFind(Suffix(s, pos + 1))
         IN  IF i # -1 /\ i + pos + 1 < Len(s) - 2
             THEN [panic |-> FALSE, found |-> TRUE, pos |-> i + pos + 1]
             ELSE [panic |-> FALSE, found |-> FALSE]

\* the loop of next_2, from candidate position pos
RECURSIVE ScanFrom(_, _)
ScanFrom(s, pos) ==
    LET st == Structural(s, pos)
    IN  IF st.done THEN st.res
        ELSE LET em == Emphasis(s, pos, st.pre)
             IN  IF em.done THEN em.res
                 ELSE LET n == NextPos(s, pos)
                      IN  IF n.panic THEN Panic
                          ELSE IF n.found THEN ScanFrom(s, n.pos)
                          ELSE [panic |-> FALSE, obj |-> Text(s, 0, Len(s)),
                                off |-> Len(s), next |-> <<>>]

\* Object::next_2
next_2(s) ==
    IF Len(s) <= 2
    THEN [panic |-> FALSE, obj |-> Text(s, 0, Len(s)), off |-> Len(s), next |-> <<>>]
    ELSE ScanFrom(s, 0)

----------------------------------------------------------------------------
(* Inputs of the title parser.  shape records how the text was put         *)
(* together; the parser never reads it.                                    *)

MaxLevel == 2       \* marker characters of a headline
MaxWords == 3       \* words of a free-form headline
MaxTags == 2        \* tags of a tag group
MaxTokenLen == 5    \* characters of a trailing token
MaxBodyLines == 2   \* lines of the drawer body after a headline
MaxProps == 3       \* lines of the body of a drawer parsed on its own

RECURSIVE Stars(_)
Stars(n) == IF n = 0 THEN <<>> ELSE <<"*">> \o Stars(n - 1)

RECURSIVE Concat(_)
Concat(ss) == IF ss = <<>> THEN <<>> ELSE Head(ss) \o Concat(Tail(ss))

\* every sequence of at most n elements of S
RECURSIVE SeqsUpTo(_, _)
SeqsUpTo(S, n) ==
    IF n = 0 THEN {<<>>}
    ELSE LET shorter == SeqsUpTo(S, n - 1)
         IN  shorter \cup {Append(q, x) : q \in shorter, x \in S}

Cookie(c) == <<"[", "#", c, "]">>
SP == <<" ">>
TAB == <<"\t">>
LF == <<"\n">>
CRLF == <<"\r", "\n">>

\* (1) free-form headlines: one marker, then words, each after a separator
FreeWords == {TODO, DONE, <<"x">>, Cookie("A"), Cookie("1"),
              <<":", "t", ":", "u", "%", ":">>, <<NBSP, "x">>}
FreeSeps == {SP, LF}
FreeItems == {sep \o w : sep \in FreeSeps, w \in FreeWords}
FreeInputs(words) ==
    {[text |-> Stars(1) \o Concat(items), shape |-> [kind |-> "free"]] :
        items \in SeqsUpTo(FreeItems, words)}

\* (2) full headlines: markers, keyword, cookie, title text and tag group,
\* each after a run of spaces or tabs
HeadKeywords == {TODO, DONE}
HeadPriorities == {"A", "Z"}
HeadTexts == { <<"x">>, <<"x", " ", "\t", "y">>, <<":", "a", ":", " ", "b">>,
               DONE, <<NBSP, "x">>, Cookie("B") }
TagNames == { <<"t">>, <<"a", "2", "%">> }
HeadTagLists(tags) == SeqsUpTo(TagNames, tags) \ {<<>>}
HeadGaps == {SP, TAB}
HeadEnds == {<<>>, <<"\n", "x">>}

RECURSIVE JoinTags(_)
JoinTags(tags) ==
    IF tags = <<>> THEN <<":">> ELSE <<":">> \o Head(tags) \o JoinTags(Tail(tags))

HeadInputs(levels, ntags) ==
    {[text |-> Stars(n) \o g[1] \o k \o g[2] \o Cookie(x) \o g[3] \o txt
                 \o g[4] \o JoinTags(tags) \o e,
      shape |-> [kind |-> "head", level |-> n, keyword |-> k, priority |-> x,
                 txt |-> txt, tags |-> tags]] :
        n \in 1..levels, g \in [1..4 -> HeadGaps], k \in HeadKeywords,
        x \in HeadPriorities, txt \in HeadTexts, tags \in HeadTagLists(ntags),
        e \in HeadEnds}

\* (3) a bracketed token at the priority position, after the markers or
\* after a keyword
CookiePres == {SP, SP \o TODO \o SP, SP \o DONE \o TAB, SP \o <<"x">> \o SP}
CookieChars == {"A", "Z", "a", "1", "#", " ", NBSP}
CookiePosts == { <<>>, SP, TAB, LF, CRLF, <<"\r">>, <<":", ":">>, <<"x">>,
                 <<" ", "x">>, <<"\n", "x">>, <<" ", ":", "t", ":">>,
                 <<"\n", "x", " ", ":", "t", ":">> }
CookieInputs ==
    {[text |-> Stars(1) \o pre \o Cookie(c) \o post,
      shape |-> [kind |-> "cookie", at |-> 1 + Len(pre), char |-> c]] :
        pre \in CookiePres, c \in CookieChars, post \in CookiePosts}

\* (4) a trailing token: every string of a few characters after a head
TokenChars == {":", "t", "-"}
TokenHeads == { <<>>, <<"x">>, <<"x", " ", ":", "a", ":">> }
TokenSeps == { <<>>, SP, TAB, <<NBSP>> }
TokenEnds == { <<>>, SP }
TokenInputs(len) ==
    {[text |-> Stars(1) \o SP \o h \o sep \o tok \o e,
      shape |-> [kind |-> "token"]] :
        h \in TokenHeads, sep \in TokenSeps,
        tok \in SeqsUpTo(TokenChars, len), e \in TokenEnds}

\* (5) a headline followed by a planning line and a drawer
PlanningLine == <<"C", "L", "O", "S", "E", "D", ":", " ", "<", "d", ">">>
LOGBOOK == <<"L", "O", "G", "B", "O", "O", "K">>
PropertiesLower == <<"p", "r", "o", "p", "e", "r", "t", "i", "e", "s">>
DrawerNames == {PROPERTIES, LOGBOOK, PropertiesLower, SubSeq(PROPERTIES, 1, 8)}
PropLines == { <<":", "A", ":", " ", "1">>, <<":", "B", ":", "2", " ">>,
               <<" ", ":", "A", "+", ":", " ", "3">>, <<>>, <<"j", "u", "n", "k">> }
DrawerEnds == {EndMarker \o LF, SP \o EndMarkerLower \o LF \o LF \o <<"x">>, <<>>}

RECURSIVE JoinLines(_)
JoinLines(ls) == IF ls = <<>> THEN <<>> ELSE Head(ls) \o LF \o JoinLines(Tail(ls))

DrawerText(indent, name, body, e) ==
    indent \o <<":">> \o name \o <<":">> \o LF \o JoinLines(body) \o e

LineTitles == { <<" ", "x">>, SP \o TODO \o SP \o Cookie("A") \o <<" ", "x", " ", ":", "t", ":">> }
LineInputs(lines) ==
    {[text |-> Stars(1) \o ttl \o LF \o plan
                 \o DrawerText(indent, name, body, e),
      shape |-> [kind |-> "lines", planned |-> plan # <<>>, name |-> name,
                 drawerAt |-> 1 + Len(ttl) + 1 + Len(plan),
                 closed |-> e # <<>>]] :
        ttl \in LineTitles, plan \in {<<>>, PlanningLine \o LF},
        indent \in {<<>>, <<" ", " ">>}, name \in DrawerNames,
        body \in SeqsUpTo(PropLines, lines), e \in DrawerEnds}

----------------------------------------------------------------------------
(* The calls                                                               *)

\* the call is given one of the inputs
Given(inputs) == \E i \in inputs : src = i.text /\ shape = i.shape

InitTitle ==
    /\ \/ Given(FreeInputs(MaxWords))
       \/ Given(HeadInputs(MaxLevel, MaxTags))
       \/ Given(CookieInputs)
       \/ Given(TokenInputs(MaxTokenLen))
       \/ Given(LineInputs(MaxBodyLines))
    /\ pc = "title"
    /\ title = Null
    /\ drawer = Null
    /\ scan = Null

\* Title::parse(input, config) with the default configuration
ParseTitle ==
    /\ pc = "title"
    /\ title' = parse_title(src, DefaultConfig)
    /\ pc' = "done"
    /\ UNCHANGED <<src, shape, drawer, scan>>

NextTitle == ParseTitle

Spec == InitTitle /\ [][NextTitle]_vars

----------------------------------------------------------------------------
(* Inputs of parse_properties_drawer called on its own                     *)

\* the decimal digits of n < 100
DigitChars == <<"0", "1", "2", "3", "4", "5", "6", "7", "8", "9">>
Decimal(n) ==
    IF n < 10 THEN <<DigitChars[n + 1]>>
    ELSE <<DigitChars[(n \div 10) + 1], DigitChars[(n % 10) + 1]>>

\* the drawer of the test preserve_properties_drawer_order: TestProps
\* properties named FOO, QUX or BAR followed by (i + TestShift) % TestProps,
\* with value i
TestProps == 20
TestShift == 7
TestName(i) ==
    (IF i % 3 = 0 THEN <<"F", "O", "O">>
     ELSE IF i % 3 = 1 THEN <<"Q", "U", "X">>
     ELSE <<"B", "A", "R">>) \o Decimal((i + TestShift) % TestProps)
TestPairs == [k \in 1..TestProps |-> <<TestName(k - 1), Decimal(k - 1)>>]
TestLines ==
    [k \in 1..TestProps |->
        <<" ", " ", " ", ":">> \o TestPairs[k][1] \o <<":", " ">> \o TestPairs[k][2]]
TestDrawer ==
    <<" ", " ", " ">> \o <<":">> \o PROPERTIES \o <<":">> \o LF \o JoinLines(TestLines)
        \o EndMarker \o LF

\* body lines: properties (one name twice, one with a '+', one with two), a
\* blank line, and two lines that are no property
BodyLines == { <<":", "A", ":", " ", "1">>, <<":", "B", ":", "2", " ">>,
               <<" ", ":", "A", ":", " ", "3">>, <<" ", ":", "C", "+", ":">>,
               <<" ">>, <<"j", "u", "n", "k">>, <<":", "D">>,
               <<":", "E", "+", "+", ":", " ", "4">> }

DrawerInputs(lines) ==
    {[text |-> DrawerText(indent, name, body, EndMarker \o LF \o e),
      shape |-> [kind |-> "drawer", name |-> name, body |-> body]] :
        indent \in {<<>>, <<" ", " ", " ">>}, name \in {PROPERTIES, LOGBOOK},
        body \in SeqsUpTo(BodyLines, lines), e \in {<<>>, <<"x">>}}
    \cup {[text |-> TestDrawer,
           shape |-> [kind |-> "drawer", name |-> PROPERTIES, body |-> TestLines]]}

InitDrawer ==
    /\ Given(DrawerInputs(MaxProps))
    /\ pc = "drawer"
    /\ title = Null
    /\ drawer = Null
    /\ scan = Null

\* parse_properties_drawer(input), as its tests call it
ParsePropertiesDrawer ==
    /\ pc = "drawer"
    /\ drawer' = parse_properties_drawer(src, 0)
    /\ pc' = "done"
    /\ UNCHANGED <<src, shape, title, scan>>

NextDrawer == ParsePropertiesDrawer

SpecDrawer == InitDrawer /\ [][NextDrawer]_vars

----------------------------------------------------------------------------
(* Inputs of Object::next_2                                                *)

MaxScanLen == 5     \* pieces of a scanned text

\* every text of a few pieces: a letter, two markers, three
\* border bytes, a non-ASCII character and a link
ScanPieces == { <<"a">>, <<"*">>, <<"=">>, <<" ">>, <<",">>, <<"{">>,
                <<LEAD, CONT>>, <<"[", "[", "a", "]", "]">> }
PieceInputs(pieces) == {Concat(ps) : ps \in SeqsUpTo(ScanPieces, pieces)}

\* one construct of every kind the scanner dispatches on, after a prefix and
\* before a suffix
Constructs ==
    { <<"+", "a", "+">>, <<"/", "a", "/">>, <<"_", "a", "_">>, <<"~", "a", "~">>,
      <<"=", LEAD, CONT, "=">>, <<"*", "a", " ", "b", "*">>,
      <<"@", "@", "h", ":", "b", "@", "@">>, <<"{", "{", "{", "m", "}", "}", "}">>,
      <<"<", "<", "<", "r", ">", ">", ">">>, <<"<", "<", "t", ">", ">">>,
      <<"<", "<", "\n", ">", ">">>, <<"[", "f", "n", ":", "1", "]">>,
      <<"[", "1", "/", "2", "]">>, <<"[", "5", "%", "]">>, <<"[", "a", "]">>,
      <<"c", "a", "l", "l", "_", "f", "(", ")">>,
      <<"s", "r", "c", "_", "c", "{", "x", "}">>, <<"c", "a", "t">>,
      <<"@", "a", "b">>, <<"<", "a", "b">> }
ConstructPrefixes == { <<>>, <<"a", " ">>, <<" ">>, <<"(">>, <<"\"">>, <<"\n">>,
                       <<"a", "a">>, <<LEAD, CONT, " ">>, <<"a", ",">>,
                       <<"a", "(">>, <<"a", "\"">>, <<"a", "\n">>, <<"a", "\t">> }
ConstructSuffixes == { <<>>, <<" ", "a">>, <<"a">> }
ConstructInputs ==
    {pre \o c \o suf : pre \in ConstructPrefixes, c \in Constructs,
                       suf \in ConstructSuffixes}

InitScan ==
    /\ src \in PieceInputs(MaxScanLen) \cup ConstructInputs
    /\ shape = [kind |-> "scan"]
    /\ pc = "scan"
    /\ title = Null
    /\ drawer = Null
    /\ scan = Null

\* Object::next_2(src)
Next2 ==
    /\ pc = "scan"
    /\ scan' = next_2(src)
    /\ pc' = "done"
    /\ UNCHANGED <<src, shape, title, drawer>>

NextScan == Next2

SpecScan == InitScan /\ [][NextScan]_vars

----------------------------------------------------------------------------
(* Properties of parse_title                                               *)

Done == pc = "done"

IsPrefix(a, b) == Len(a) <= Len(b) /\ SubSeq(b, 1, Len(a)) = a

\* C1: a headline made of n markers, a configured keyword K, a cookie [#X]
\* with X an uppercase letter, a title text T and a tag group :t1:..:tk:,
\* separated by spaces or tabs, parses to level n, keyword K, priority X,
\* raw T trimmed, tags t1..tk in order, no planning and no properties, and the
\* raw text returned beside the Title is Title.raw.
C1_FullHeadline ==
    (Done /\ shape.kind = "head") =>
        /\ title.level = shape.level
        /\ title.keyword = <<shape.keyword>>
        /\ title.priority = <<shape.priority>>
        /\ title.raw = Trim(shape.txt)
        /\ title.tags = shape.tags
        /\ title.planning = <<>>
        /\ title.properties = <<>>
        /\ title.rawText = title.raw

C1_Witness ==
    /\ Done /\ shape.kind = "head"
    /\ title.level = 2 /\ title.keyword = <<DONE>> /\ title.priority = <<"Z">>
    /\ Len(title.tags) = 2 /\ title.raw = <<"x">> /\ shape.txt = <<NBSP, "x">>

\* The word that follows the markers after a run of spaces or tabs: the
\* offsets [from, to) of the longest run of non-whitespace characters.
WordFrom == RunEnd(src, RunEnd(src, 0, IsStar), IsSpace)
WordTo == RunEnd(src, WordFrom, IsWordChar)
HasFirstWord == WordFrom > RunEnd(src, 0, IsStar) /\ WordTo > WordFrom
FirstWord == Slice(src, WordFrom, WordTo)
NotConfigured(w) ==
    ~InList(w, DefaultConfig.open) /\ ~InList(w, DefaultConfig.closed)

\* the word is a priority cookie [#X], X an uppercase letter, and a space, a
\* tab or a line ending follows it
FirstWordIsPriority ==
    /\ \E x \in Upper : FirstWord = Cookie(x)
    /\ \/ StartsWith(src, WordTo, SP) \/ StartsWith(src, WordTo, TAB)
       \/ StartsWith(src, WordTo, LF) \/ StartsWith(src, WordTo, CRLF)

\* C2 as stated: when the word after the markers is in neither keyword list,
\* keyword is None and the word is a prefix of Title.raw.
C2_Original ==
    (Done /\ HasFirstWord /\ NotConfigured(FirstWord)) =>
        /\ title.keyword = <<>>
        /\ IsPrefix(FirstWord, title.raw)

\* C2, amended: when the word after the markers is in neither keyword list,
\* keyword is None; if the word is a well-formed priority cookie followed by
\* a space, a tab or a line ending it becomes the priority and raw starts
\* after it; otherwise the word, less the non-ASCII whitespace trimming
\* removes at its ends, is a prefix of Title.raw.
C2_UnknownWordStaysInRaw ==
    (Done /\ HasFirstWord /\ NotConfigured(FirstWord)) =>
        /\ title.keyword = <<>>
        /\ title.afterKeyword = title.afterLevel
        /\ IF FirstWordIsPriority
           THEN /\ title.priority = <<FirstWord[3]>>
                /\ title.rawFrom >= WordTo
           ELSE /\ IsPrefix(Trim(FirstWord), title.raw)
                /\ (Trim(FirstWord) # <<>> =>
                       title.rawFrom = TrimSlice(src, WordFrom, WordTo)[1])

C2_Witness ==
    /\ Done /\ HasFirstWord /\ NotConfigured(FirstWord)
    /\ FirstWord = <<"x">> /\ title.raw = <<"x", " ", "D", "O", "N", "E">>
    /\ title.keyword = <<>>

\* end of the first physical line of src: the offset of its line feed
FirstLineEnd == IF FindChar(src, 0, "\n") = -1 THEN Len(src) ELSE FindChar(src, 0, "\n")

AllWhitespace(a, b) == a <= b /\ \A i \in (a + 1)..b : IsWhitespace(src[i])

\* C3: the markers, the keyword, the priority cookie, raw and the tag group
\* are disjoint pieces of the first physical line, in this order, with only
\* whitespace between them and after the last: joined with that whitespace
\* they give back the title line, and raw and the tags come from no other
\* line.
C3_Reconstructs ==
    Done =>
        /\ title.level = title.afterLevel
        /\ AllWhitespace(title.afterLevel, title.kwFrom)
        /\ title.kwFrom <= title.kwTo
        /\ AllWhitespace(title.kwTo, title.priFrom)
        /\ title.priFrom <= title.priTo
        /\ AllWhitespace(title.priTo, title.rawFrom)
        /\ title.rawFrom <= title.rawTo
        /\ AllWhitespace(title.rawTo, title.tagFrom)
        /\ title.tagFrom <= title.tagTo
        /\ AllWhitespace(title.tagTo, FirstLineEnd)
        /\ title.raw = Slice(src, title.rawFrom, title.rawTo)
        /\ title.tags = SplitTags(Slice(src, title.tagFrom, title.tagTo))

\* The token at the priority position: "[#", one character that is no line
\* break, "]", after the run of spaces or tabs that follows the markers or
\* the keyword.
TokenAt == RunEnd(src, title.afterKeyword, IsSpace)
HasCookieToken ==
    /\ TokenAt > title.afterKeyword
    /\ TokenAt + 4 <= Len(src)
    /\ StartsWith(src, TokenAt, <<"[", "#">>)
    /\ StartsWith(src, TokenAt + 3, <<"]">>)
    /\ src[TokenAt + 3] \notin {"\n", "\r"}
CookieFollowed ==
    \/ StartsWith(src, TokenAt + 4, SP) \/ StartsWith(src, TokenAt + 4, TAB)
    \/ StartsWith(src, TokenAt + 4, LF) \/ StartsWith(src, TokenAt + 4, CRLF)
Malformed == src[TokenAt + 3] \notin Upper \/ ~CookieFollowed

\* C4: a malformed cookie at the priority position (its character is no
\* uppercase ASCII letter, or no space, tab or line ending follows it) leaves
\* priority None, the priority step consumes nothing, and the cookie's text
\* lies inside Title.raw; a priority that is set is an uppercase ASCII letter.
C4_MalformedCookie ==
    Done =>
        /\ (HasCookieToken /\ Malformed) =>
              /\ title.priority = <<>>
              /\ title.afterPriority = title.afterKeyword
              /\ title.rawFrom <= TokenAt /\ TokenAt + 4 <= title.rawTo
              /\ Slice(src, TokenAt, TokenAt + 4)
                     = SubSeq(title.raw, TokenAt - title.rawFrom + 1,
                              TokenAt - title.rawFrom + 4)
        /\ (title.priority # <<>> =>
              /\ title.priority[1] \in Upper
              /\ HasCookieToken /\ ~Malformed
              /\ title.priority[1] = src[TokenAt + 3])

C4_Witness ==
    /\ Done /\ HasCookieToken /\ Malformed
    /\ title.keyword = <<DONE>> /\ src[TokenAt + 3] = "1"
    /\ title.priority = <<>> /\ title.tagged
    /\ title.raw = Cookie("1")

\* C7: a drawer after the title (and the planning line) whose name is not
\* exactly PROPERTIES is no match: properties is empty, the step consumes
\* nothing, so the blank-line count starts at the drawer, and the parse ends
\* with its result.
C7_OtherDrawerIsNoMatch ==
    (Done /\ shape.kind = "lines" /\ shape.name # PROPERTIES) =>
        /\ title.properties = <<>>
        /\ title.afterPlanning = shape.drawerAt
        /\ title.afterProperties = shape.drawerAt
        /\ title.post_blank = 0
        /\ title.rest = shape.drawerAt
        /\ title.level = 1
        /\ (title.planning # <<>>) = shape.planned

C7_Witness ==
    /\ Done /\ shape.kind = "lines" /\ shape.name = LOGBOOK /\ shape.closed
    /\ shape.planned /\ title.planning # <<>> /\ title.properties = <<>>
    /\ title.rest = shape.drawerAt
    /\ parse_drawer_without_blank(src, TrimStartFrom(src, shape.drawerAt, Len(src))).ok
    /\ parse_properties_drawer_any_name(src, shape.drawerAt).pairs # <<>>

\* The trimmed tail and its split at the last space or tab.
TrimmedTail == Slice(src, title.tailFrom, title.tailTo)
TailHasGap == \E i \in 1..Len(TrimmedTail) : TrimmedTail[i] \in {" ", "\t"}
TailCut ==
    CHOOSE i \in 1..Len(TrimmedTail) :
        /\ TrimmedTail[i] \in {" ", "\t"}
        /\ \A j \in (i + 1)..Len(TrimmedTail) : TrimmedTail[j] \notin {" ", "\t"}
TailHead == SubSeq(TrimmedTail, 1, TailCut - 1)
TailToken == SubSeq(TrimmedTail, TailCut + 1, Len(TrimmedTail))
TagAlphabet == Upper \cup Lower \cup Digit \cup {EACUTE, "_", "@", "#", "%", ":"}
Qualifies(tok) ==
    /\ Len(tok) > 2
    /\ Head(tok) = ":" /\ tok[Len(tok)] = ":"
    /\ \A i \in 1..Len(tok) : tok[i] \in TagAlphabet

\* a tag group with every run of colons reduced to one colon
RECURSIVE CollapseColons(_)
CollapseColons(t) ==
    IF Len(t) < 2 THEN t
    ELSE IF t[1] = ":" /\ t[2] = ":" THEN CollapseColons(Tail(t))
    ELSE <<t[1]>> \o CollapseColons(Tail(t))

\* C10: the trimmed tail is split at its last space or tab; the trailing
\* token is a tag group iff it is longer than 2, starts and ends with ':' and
\* holds only alphanumerics, '_', '@', '#', '%' and ':'.  Then raw is the
\* trimmed head and tags are the token's non-empty segments between colons,
\* in order (no tag is empty or holds a colon, and splitting the group
\* rebuilt from the tags gives the same tags); otherwise, also when the tail
\* holds no space or tab, raw is the whole tail and there are no tags.
C10_TagExtraction ==
    Done =>
        IF TailHasGap /\ Qualifies(TailToken)
        THEN /\ title.tagged
             /\ title.raw = Trim(TailHead)
             /\ \A i \in 1..Len(title.tags) :
                    /\ title.tags[i] # <<>>
                    /\ \A j \in 1..Len(title.tags[i]) : title.tags[i][j] # ":"
             /\ JoinTags(title.tags) = CollapseColons(TailToken)
             /\ SplitTags(JoinTags(title.tags)) = title.tags
        ELSE /\ ~title.tagged
             /\ title.raw = TrimmedTail
             /\ title.tags = <<>>

C10_Witness ==
    /\ Done /\ shape.kind = "token" /\ title.tagged
    /\ TailToken = <<":", ":", "t", ":", ":">>
    /\ title.tags = << <<"t">> >>
    /\ title.raw = <<"x", " ", ":", "a", ":">>

----------------------------------------------------------------------------
(* Properties of parse_properties_drawer                                   *)

\* A body line is a property line when, after its leading whitespace, it
\* starts with ':' and holds a second ':'; its pair is the name between the
\* two (as the parser normalises it) and the trimmed rest of the line.
LineStart(l) == TrimStartFrom(l, 0, Len(l))
IsPropertyLine(l) ==
    /\ StartsWith(l, LineStart(l), <<":">>)
    /\ FindChar(l, LineStart(l) + 1, ":") # -1
PairOf(l) ==
    LET k == FindChar(l, LineStart(l) + 1, ":")
    IN  <<TrimEndPlus(Slice(l, LineStart(l) + 1, k)), Trim(Suffix(l, k + 1))>>
IsBlankLine(l) == \A i \in 1..Len(l) : IsWhitespace(l[i])

RECURSIVE PairsOfLines(_)
PairsOfLines(ls) ==
    IF ls = <<>> THEN <<>>
    ELSE IF IsPropertyLine(Head(ls)) THEN <<PairOf(Head(ls))>> \o PairsOfLines(Tail(ls))
    ELSE PairsOfLines(Tail(ls))

\* the lines before the first line that is neither blank nor a property line
RECURSIVE LeadingLines(_)
LeadingLines(ls) ==
    IF ls = <<>> THEN <<>>
    ELSE IF IsPropertyLine(Head(ls)) \/ IsBlankLine(Head(ls))
    THEN <<Head(ls)>> \o LeadingLines(Tail(ls))
    ELSE <<>>

DrawerParsed == Done /\ shape.kind = "drawer" /\ drawer.ok

\* C8 as stated: the map holds exactly one pair per property line of the
\* body, in order of appearance, duplicate names kept.
C8_Original ==
    DrawerParsed => drawer.pairs = PairsOfLines(shape.body)

\* C8, amended: the map begins with exactly one pair per property line that
\* comes before the first line that is neither blank nor a property line, in
\* order of appearance, duplicate names kept; when every line is blank or a
\* property line the map holds exactly these pairs.  The order-preserving
\* keyed view keeps the order of first appearance, so for distinct names (the
\* 20 of the test) both give the pairs in the order written.
C8_PairsInOrder ==
    DrawerParsed =>
        LET lead == PairsOfLines(LeadingLines(shape.body))
            names == [i \in 1..Len(drawer.pairs) |-> drawer.pairs[i][1]]
        IN  /\ IsPrefix(lead, PropertiesIter(drawer.pairs))
            /\ (LeadingLines(shape.body) = shape.body => drawer.pairs = lead)
            /\ ((\A i, j \in 1..Len(names) : names[i] = names[j] => i = j)
                   => IntoIndexMap(drawer.pairs) = drawer.pairs)
            /\ (src = TestDrawer =>
                   /\ drawer.pairs = TestPairs
                   /\ IntoIndexMap(drawer.pairs) = TestPairs)

C8_Witness ==
    /\ DrawerParsed
    /\ Len(drawer.pairs) = 3
    /\ drawer.pairs[1][1] = <<"A">> /\ drawer.pairs[2][1] = <<"B">>
    /\ drawer.pairs[3] = << <<"A">>, <<"3">> >>
    /\ Len(IntoIndexMap(drawer.pairs)) = 2

\* The text between the two colons of a property line, and the rest of the
\* line.
NameText(l) == Slice(l, LineStart(l) + 1, FindChar(l, LineStart(l) + 1, ":"))
ValueText(l) == Suffix(l, FindChar(l, LineStart(l) + 1, ":") + 1)

StripOnePlus(n) == IF n # <<>> /\ n[Len(n)] = "+" THEN SubSeq(n, 1, Len(n) - 1) ELSE n
RECURSIVE StripEveryPlus(_)
StripEveryPlus(n) ==
    IF n # <<>> /\ n[Len(n)] = "+" THEN StripEveryPlus(SubSeq(n, 1, Len(n) - 1)) ELSE n

\* a drawer named PROPERTIES whose body lines are all blank or property lines
PropertyBody ==
    /\ Done
    /\ shape.kind = "drawer"
    /\ shape.name = PROPERTIES
    /\ LeadingLines(shape.body) = shape.body
PropertyLines == SelectSeq(shape.body, IsPropertyLine)

\* C12 as stated: each property line gives the pair (name less exactly one
\* trailing '+', trimmed value), so a name ending in several '+' loses only
\* the last; a body without properties gives an empty map, not a failure.
C12_Original ==
    PropertyBody =>
        /\ drawer.ok
        /\ drawer.pairs = [k \in 1..Len(PropertyLines) |->
                              <<StripOnePlus(NameText(PropertyLines[k])),
                                Trim(ValueText(PropertyLines[k]))>>]

\* C12, amended: each property line gives the pair (name less every
\* trailing '+', trimmed value): a name without a trailing '+' is unchanged,
\* a name ending in one '+' loses it, and a name ending in several '+' loses
\* them all; a body without properties gives an empty map, not a failure.
C12_EveryPlusRemoved ==
    PropertyBody =>
        /\ drawer.ok
        /\ drawer.pairs = [k \in 1..Len(PropertyLines) |->
                              <<StripEveryPlus(NameText(PropertyLines[k])),
                                Trim(ValueText(PropertyLines[k]))>>]
        /\ (PropertyLines = <<>> => drawer.pairs = <<>>)

\* names with one '+', two '+' and none, in one drawer
C12_Witness ==
    /\ PropertyBody
    /\ shape.body = << <<" ", ":", "C", "+", ":">>,
                       <<":", "E", "+", "+", ":", " ", "4">>,
                       <<":", "A", ":", " ", "1">> >>
    /\ drawer.ok
    /\ drawer.pairs = << << <<"C">>, <<>> >>, << <<"E">>, <<"4">> >>,
                         << <<"A">>, <<"1">> >> >>

----------------------------------------------------------------------------
(* Properties of Object::next_2                                            *)

Scanned == Done /\ shape.kind = "scan"

SpanKind(b) ==
    IF b = "*" THEN "Bold" ELSE IF b = "+" THEN "Strike"
    ELSE IF b = "/" THEN "Italic" ELSE "Underline"

\* the object the scanner found, when it found one: the second part of the
\* result, or the first when there is no text before it
Found == IF scan.next # <<>> THEN scan.next[1] ELSE [obj |-> scan.obj, off |-> scan.off]
FoundLeaf == ~scan.panic /\ Found.obj.kind \in {"Verbatim", "Code"}

\* C5: an emphasis span whose opening marker is byte 0 gives (span with end =
\* the offset of the closing marker, 1, None); a verbatim or code leaf whose
\* opening marker is byte p > 0 and whose closing marker is end bytes after it
\* gives (Text(src[0..p]), p, Some((leaf of the bytes strictly between the
\* two markers, end + 1))).
C5_ResultShape ==
    Scanned =>
        /\ (/\ Len(src) > 2
            /\ src[1] \in {"*", "+", "/", "_"}
            /\ EmphasisParse(src, src[1]) # -1) =>
               /\ ~scan.panic
               /\ scan.obj.kind = SpanKind(src[1])
               /\ scan.obj.end = EmphasisParse(src, src[1])
               /\ src[scan.obj.end + 1] = src[1]
               /\ scan.off = 1
               /\ scan.next = <<>>
        /\ (FoundLeaf /\ Found.obj.at > 0) =>
               LET p   == Found.obj.at
                   end == EmphasisParse(Suffix(src, p), src[p + 1])
               IN  /\ scan.obj.kind = "Text"
                   /\ scan.obj.text = Slice(src, 0, p)
                   /\ scan.off = p
                   /\ scan.next # <<>>
                   /\ Found.obj.text = Slice(src, p + 1, p + end)
                   /\ Found.off = end + 1

\* C6: next_2 raises no hard error: every byte it indexes is inside the span
\* and every slice it takes is in range and on a character boundary.
C6_NeverPanics == Scanned => ~scan.panic

\* C9: the result accounts for the span from byte 0: with no text prefix the
\* object starts at byte 0; with a text prefix of length p the prefix is
\* src[0..p] and the object starts at byte p.
C9_NoByteSkipped ==
    (Scanned /\ ~scan.panic) =>
        IF scan.next = <<>>
        THEN scan.obj.at = 0
        ELSE /\ scan.obj.kind = "Text"
             /\ scan.obj.text = Slice(src, 0, scan.off)
             /\ scan.next[1].obj.at = scan.off

\* the border bytes the border-shift rule is stated for
ShiftBorders == {" ", "\"", ",", "(", "\n"}
EmphasisMarkers == {"*", "+", "/", "_", "=", "~"}
EmphasisKinds == {"Bold", "Strike", "Italic", "Underline", "Verbatim", "Code"}

\* Emphasis::parse reports a match on the suffix of src at offset k
EmphasisAt(k) ==
    /\ k < Len(src)
    /\ src[k + 1] \in EmphasisMarkers
    /\ EmphasisParse(Suffix(src, k), src[k + 1]) # -1

\* some sub-parser reports a match on the suffix of src at offset k
ConstructAt(k) ==
    \/ EmphasisAt(k)
    \/ \E off \in {SnippetParse(Suffix(src, k)), MacrosParse(Suffix(src, k)),
                   RadioTargetParse(Suffix(src, k)), TargetParse(Suffix(src, k)),
                   FnRefParse(Suffix(src, k)), LinkParse(Suffix(src, k)),
                   CookieParse(Suffix(src, k)), InlineCallParse(Suffix(src, k)),
                   InlineSrcParse(Suffix(src, k))} : off # -1

\* offset i holds a border byte, the emphasis at i + 1 matches, and nothing
\* matches before i + 1
ShiftCase(i) ==
    /\ i + 1 < Len(src)
    /\ src[i + 1] \in ShiftBorders
    /\ EmphasisAt(i + 1)
    /\ \A k \in 0..i : ~ConstructAt(k)

============================================================================
